---- MODULE Spec2Model ----
(***************************************************************************)
(* FileOrganizer (src/organizor.py): organize_by_type and                  *)
(* undo_last_operation over a small file tree, with the persisted history  *)
(* file (organization_history.json), the in-memory history cache and the   *)
(* timeline file (timeline.txt).                                           *)
(*                                                                         *)
(* A path is a sequence of names; a name is [base, sfx, ext]: the text     *)
(* base, then "_k" for every k of sfx, then ext.  So "a_1.JPG" is          *)
(* [base |-> "a", sfx |-> <<1>>, ext |-> ".JPG"], whether the user named   *)
(* the file so or _get_unique_path produced it.  The history file and the  *)
(* timeline live in the script's directory, which is outside the tree      *)
(* that is organized here.                                                 *)
(***************************************************************************)
EXTENDS Integers, Sequences, FiniteSets, TLC

\* ------------------------------------------------------------------ bounds
MaxFiles == 2     \* files in the initial tree
MaxEvents == 4    \* calls of organize/undo plus outside events in one behaviour
MaxEnv == 1       \* outside events: user actions between calls, failing system calls

\* ------------------------------------------------------------------ names
Nm(b, s, e) == [base |-> b, sfx |-> s, ext |-> e]
D(b) == Nm(b, <<>>, "")

Root == <<>>
SDir == <<D("S")>>
TDir == <<D("T")>>
SImages == <<D("S"), D("images")>>

aJPG   == Nm("a", <<>>, ".JPG")
a1JPG  == Nm("a", <<1>>, ".JPG")
bTxt   == Nm("b", <<>>, ".txt")
imagesFile == D("images")      \* a file called "images", no extension

Last(s) == s[Len(s)]
Parent(p) == SubSeq(p, 1, Len(p) - 1)
Prefixes(p) == {SubSeq(p, 1, i) : i \in 0..Len(p)}
Reverse(s) == [i \in 1..Len(s) |-> s[Len(s) + 1 - i]]
Orders(S) == {s \in [1..Cardinality(S) -> S] :
                \A i, j \in 1..Cardinality(S) : i # j => s[i] # s[j]}

\* ------------------------------------------------------------------ the table
file_types == <<
  [cat |-> "images", exts |-> {".jpg", ".jpeg", ".png", ".gif", ".bmp", ".tiff", ".heic", ".raw"}],
  [cat |-> "documents", exts |-> {".pdf", ".doc", ".docx", ".txt", ".rtf", ".odt", ".pages"}],
  [cat |-> "spreadsheets", exts |-> {".xls", ".xlsx", ".numbers", ".csv"}],
  [cat |-> "presentations", exts |-> {".ppt", ".pptx", ".key"}],
  [cat |-> "videos", exts |-> {".mp4", ".mov", ".avi", ".wmv", ".flv", ".mkv"}],
  [cat |-> "audio", exts |-> {".mp3", ".wav", ".aac", ".m4a", ".flac"}],
  [cat |-> "archives", exts |-> {".zip", ".rar", ".7z", ".tar", ".gz"}],
  [cat |-> "code", exts |-> {".py", ".java", ".cpp", ".js", ".html", ".css", ".php", ".c", ".ts"}],
  [cat |-> "others", exts |-> {}] >>

Categories == {file_types[i].cat : i \in 1..Len(file_types)}

\* str.lower() on the extensions of the model's names
Lower(e) == CASE e = ".JPG" -> ".jpg"
              [] e = ".TXT" -> ".txt"
              [] OTHER -> e

\* ext.lower() dropped: the comparison is case-sensitive
CategoryOf_CaseSensitive(name) ==
  LET hit == {i \in 1..Len(file_types) : name.ext \in file_types[i].exts}
  IN IF hit = {} THEN "others"
     ELSE file_types[CHOOSE i \in hit : \A j \in hit : i <= j].cat

\* the loop over self.file_types.items(): the first category that lists the
\* lower-cased extension, 'others' when none does
CategoryOf(name) ==
  LET hit == {i \in 1..Len(file_types) : Lower(name.ext) \in file_types[i].exts}
  IN IF hit = {} THEN "others"
     ELSE file_types[CHOOSE i \in hit : \A j \in hit : i <= j].cat

\* ------------------------------------------------------------------ the file system
\* F: set of [path, id] (regular files), Dr: set of paths (directories)
IsFile(F, p) == \E f \in F : f.path = p
IsDir(Dr, p) == p \in Dr
Exists(F, Dr, p) == IsFile(F, p) \/ IsDir(Dr, p)
FileAt(F, p) == CHOOSE f \in F : f.path = p

\* the listing walks the whole subtree of d instead of d alone
ListFiles_Recursive(F, d) ==
  {Last(f.path) : f \in {g \in F : /\ Len(g.path) > Len(d)
                                   /\ SubSeq(g.path, 1, Len(d)) = d}}

\* os.listdir(d) filtered by os.path.isfile
ListFiles(F, d) == {Last(f.path) : f \in {g \in F : Parent(g.path) = d}}

\* os.makedirs(p, exist_ok=True)
MakedirsRaises(F, p) == \E q \in Prefixes(p) : IsFile(F, q)
Makedirs(Dr, p) == Dr \cup Prefixes(p)

\* base_counter + ext
WithCounter(p, k) == [p EXCEPT ![Len(p)].sfx = Append(@, k)]

\* the existence test dropped: the plain path is always returned
GetUniquePath_NoCheck(F, Dr, p) == p

\* the while loop dropped: the counter is always 1
GetUniquePath_AlwaysOne(F, Dr, p) ==
  IF ~Exists(F, Dr, p) THEN p ELSE WithCounter(p, 1)

\* _get_unique_path: the counter goes up from 1 until the path is free
GetUniquePath(F, Dr, p) ==
  IF ~Exists(F, Dr, p) THEN p
  ELSE LET n == Cardinality(F) + Cardinality(Dr) + 1
           k == CHOOSE c \in 1..n :
                  /\ ~Exists(F, Dr, WithCounter(p, c))
                  /\ \A j \in 1..(c - 1) : Exists(F, Dr, WithCounter(p, j))
       IN WithCounter(p, k)

\* shutil.move(src, dst) of a regular file: into dst when dst is a directory,
\* onto dst otherwise (os.rename replaces an existing file)
RealDst(Dr, src, dst) == IF IsDir(Dr, dst) THEN Append(dst, Last(src)) ELSE dst

MoveRaises(F, Dr, src, dst) ==
  \/ ~IsFile(F, src)
  \/ IsDir(Dr, dst) /\ Exists(F, Dr, RealDst(Dr, src, dst))
  \/ ~IsDir(Dr, Parent(RealDst(Dr, src, dst)))

\* a copy that forgets to remove the source
ShutilMove_Copy(F, Dr, src, dst) ==
  LET to == RealDst(Dr, src, dst)
  IN {f \in F : f.path # to} \cup {[path |-> to, id |-> FileAt(F, src).id]}

ShutilMove(F, Dr, src, dst) ==
  LET to == RealDst(Dr, src, dst)
  IN {f \in F : f.path # src /\ f.path # to}
       \cup {[path |-> to, id |-> FileAt(F, src).id]}

\* ------------------------------------------------------------------ the history
None == [type |-> "None"]

NoDest == <<>>       \* dest_dir = None (or ''): organize in the source folder

\* self.history is assigned only when the file holds a batch
LoadHistory_KeepWhenEmpty(hf, h) ==
  CASE hf.state = "ok" -> IF hf.data # <<>> THEN hf.data ELSE h
    [] hf.state = "corrupt" -> <<>>
    [] OTHER -> h

\* _load_history: self.history after the call
LoadHistory(hf, h) ==
  CASE hf.state = "ok" -> hf.data
    [] hf.state = "corrupt" -> <<>>
    [] OTHER -> h

\* _load_history: self.last_operation after the call
LoadLastOperation(hf, h, lo) ==
  CASE hf.state = "ok" -> IF hf.data # <<>> THEN Last(hf.data) ELSE lo
    [] hf.state = "corrupt" -> None
    [] OTHER -> lo

\* a batch without move records is not written
SaveHistory_SkipEmpty(h, lo) ==
  [state |-> "ok",
   data |-> IF lo # None /\ lo.operations # <<>> THEN <<lo>> ELSE <<>>]

\* _save_history: what the history file holds afterwards
SaveHistory(h, lo) ==
  [state |-> "ok", data |-> IF lo # None THEN <<lo>> ELSE <<>>]

\* _record_operation: self.history = [operation]
RecordedHistory(h, operation) == <<operation>>

\* the first batch is kept: last_operation is set only when there is none
RecordedLastOperation_KeepFirst(lo, operation) == IF lo = None THEN operation ELSE lo

\* _record_operation: self.last_operation = operation
RecordedLastOperation(lo, operation) == operation

\* last_operation is not reset before the history is saved
ClearedLastOperation_Kept(lo) == lo

\* undo_last_operation: self.last_operation = None
ClearedLastOperation(lo) == None

\* timeline.txt opened with 'w': the entry replaces what was there
UpdateTimeline_Rewrite(tl, operation) ==
  << [type |-> operation.type,
      count |-> Len(operation.operations),
      location |-> operation.target_dir] >>

\* _update_timeline: one entry appended to timeline.txt
UpdateTimeline(tl, operation) ==
  Append(tl, [type |-> operation.type,
              count |-> Len(operation.operations),
              location |-> operation.target_dir])

\* ------------------------------------------------------------------ state
VARIABLES
  files,           \* regular files of the tree: set of [path, id]
  dirs,            \* directories of the tree: set of paths
  histFile,        \* organization_history.json: [state, data]
  timeline,        \* timeline.txt: the entries written so far
  history,         \* self.history
  last_operation,  \* self.last_operation
  pc,              \* "idle", "organize" (in the loop of organize_by_type), "undo"
  source_dir,      \* organize: source_dir; undo: last_op['source_dir']
  target_dir,      \* organize: target_dir; undo: last_op['target_dir']
  todo,            \* the files (organize) or records (undo) still to iterate
  operations,      \* organize: the operations list built so far
  ret,             \* how the last call ended: "ok" (organize returned), "True",
                   \* "False" (undo returned), or where organize raised:
                   \* "FileNotFoundError" (line 70), "NotADirectoryError"
                   \* (line 74), "LoopError" (lines 76-92), "RecordError" (line 93)
  log,             \* one record per call: what it started from and what it did
  touched,         \* the user changed something since the last call ended
  nenv             \* number of outside events so far

vars == <<files, dirs, histFile, timeline, history, last_operation, pc,
          source_dir, target_dir, todo, operations, ret, log, touched, nenv>>

fsVars == <<files, dirs>>
diskVars == <<histFile, timeline>>
memVars == <<history, last_operation>>
frameVars == <<source_dir, target_dir, todo, operations>>

\* ------------------------------------------------------------------ initial trees
\* The organizer has been used before: the history file holds the empty list
\* that the last undo wrote, and the tree holds S and what is in it.  The
\* first-run state (no history file) is reached when the user deletes the file.
\* the paths a file of the initial tree can have; a file's identity is the
\* number of its first path (user files: 10 + the number of the event)
InitPathSeq == << Append(SDir, aJPG), Append(SDir, bTxt), Append(SDir, imagesFile),
                  Append(SImages, aJPG) >>
InitPaths == {InitPathSeq[i] : i \in 1..Len(InitPathSeq)}
InitFile(p) == [path |-> p, id |-> CHOOSE i \in 1..Len(InitPathSeq) : InitPathSeq[i] = p]

WellFormed(F, Dr) ==
  /\ \A f \in F : Parent(f.path) \in Dr
  /\ \A d \in Dr : Prefixes(d) \subseteq Dr
  /\ \A f \in F : f.path \notin Dr

Init ==
  /\ \E P \in SUBSET InitPaths :
       /\ Cardinality(P) <= MaxFiles
       /\ files = {InitFile(p) : p \in P}
       /\ dirs = {Root, SDir} \cup UNION {Prefixes(Parent(p)) : p \in P}
       /\ WellFormed(files, dirs)
  /\ histFile = [state |-> "ok", data |-> <<>>]
  /\ timeline = <<>>
  /\ history = <<>>
  /\ last_operation = None
  /\ pc = "idle"
  /\ source_dir = Root /\ target_dir = Root
  /\ todo = <<>> /\ operations = <<>>
  /\ ret = "none"
  /\ log = <<>>
  /\ touched = FALSE
  /\ nenv = 0

\* ------------------------------------------------------------------ the call log
CallStart(op, src, tgt) ==
  [op |-> op, source_dir |-> src, target_dir |-> tgt,
   files0 |-> files, dirs0 |-> dirs, hist0 |-> histFile, tl0 |-> timeline,
   clean |-> ~touched, ret |-> "running", recs |-> <<>>, ids |-> {},
   nenv0 |-> nenv, left |-> 0]

\* only the last two calls keep what they started from and their records:
\* a call is judged while it is the last one
Older(l) ==
  [i \in 1..Len(l) |->
     IF i < Len(l)
     THEN [l[i] EXCEPT !.files0 = {}, !.dirs0 = {}, !.hist0 = None, !.tl0 = <<>>,
                       !.recs = <<>>, !.source_dir = Root, !.target_dir = Root,
                       !.nenv0 = 0, !.left = 0]
     ELSE l[i]]

Begin(op, src, tgt, r, recs) ==
  /\ log' = Append(Older(log), [CallStart(op, src, tgt) EXCEPT !.ret = r, !.recs = recs])
  /\ touched' = FALSE
  /\ ret' = r

End(r, recs) ==
  /\ log' = [log EXCEPT ![Len(log)].ret = r, ![Len(log)].recs = recs,
                         ![Len(log)].left = Len(todo)]
  /\ ret' = r
  /\ UNCHANGED touched

Idle ==
  /\ pc' = "idle"
  /\ source_dir' = Root /\ target_dir' = Root
  /\ todo' = <<>> /\ operations' = <<>>

\* one more outside event, while the budget lasts
OutsideEvent ==
  /\ nenv < MaxEnv
  /\ Len(log) + nenv < MaxEvents
  /\ nenv' = nenv + 1

\* ------------------------------------------------------------------ organize_by_type
\* the (source_dir, dest_dir) arguments tried
CallChoices == { <<SDir, NoDest>>,
                 <<SImages, SDir>>, <<SImages, TDir>> }

\* os.makedirs(target_dir) moved above the check of source_dir
EntryDirs_TargetFirst(F, Dr, src, target) ==
  IF ~Exists(F, Dr, target) THEN Makedirs(Dr, target) ELSE Dr

\* lines 69-73: the directories after the two existence checks
EntryDirs(F, Dr, src, target) ==
  IF ~Exists(F, Dr, src) THEN Dr
  ELSE IF ~Exists(F, Dr, target) THEN Makedirs(Dr, target) ELSE Dr

OrganizeCall(src, dest) ==
  LET target == IF dest # NoDest THEN dest ELSE src
  IN /\ pc = "idle"
     /\ Len(log) + nenv < MaxEvents
     /\ dirs' = EntryDirs(files, dirs, src, target)
     /\ UNCHANGED <<files, diskVars, memVars, nenv>>
     /\ IF ~Exists(files, dirs, src)
        THEN \* raise FileNotFoundError
             /\ Begin("organize", src, target, "FileNotFoundError", <<>>)
             /\ Idle
        ELSE IF IsFile(files, src)
        THEN \* os.listdir raises NotADirectoryError
             /\ Begin("organize", src, target, "NotADirectoryError", <<>>)
             /\ Idle
        ELSE \E order \in Orders(ListFiles(files, src)) :
               /\ Begin("organize", src, target, "running", <<>>)
               /\ pc' = "organize"
               /\ source_dir' = src /\ target_dir' = target
               /\ todo' = order
               /\ operations' = <<>>

\* one iteration of the loop of lines 76-92
OrganizeStep ==
  /\ pc = "organize" /\ todo # <<>>
  /\ LET file == Head(todo)
         file_path == Append(source_dir, file)
         category_dir == Append(target_dir, D(CategoryOf(file)))
         dirs1 == Makedirs(dirs, category_dir)
         new_path == GetUniquePath(files, dirs1, Append(category_dir, file))
     IN IF MakedirsRaises(files, category_dir)
        THEN /\ End("LoopError", operations) /\ Idle
             /\ UNCHANGED <<fsVars, diskVars, memVars, nenv>>
        ELSE IF MoveRaises(files, dirs1, file_path, new_path)
        THEN /\ End("LoopError", operations) /\ Idle
             /\ dirs' = dirs1
             /\ UNCHANGED <<files, diskVars, memVars, nenv>>
        ELSE /\ dirs' = dirs1
             /\ files' = ShutilMove(files, dirs1, file_path, new_path)
             /\ operations' = Append(operations,
                                     [source |-> file_path, destination |-> new_path])
             /\ todo' = Tail(todo)
             /\ log' = [log EXCEPT ![Len(log)].ids = @ \cup {FileAt(files, file_path).id}]
             /\ UNCHANGED <<diskVars, memVars, pc, source_dir, target_dir,
                            ret, touched, nenv>>

\* shutil.move fails for a reason outside the tree (permissions, device), or
\* the process is interrupted: the exception leaves organize_by_type
OrganizeFault ==
  /\ pc = "organize" /\ todo # <<>>
  /\ OutsideEvent
  /\ ~MakedirsRaises(files, Append(target_dir, D(CategoryOf(Head(todo)))))
  /\ dirs' = Makedirs(dirs, Append(target_dir, D(CategoryOf(Head(todo)))))
  /\ End("LoopError", operations) /\ Idle
  /\ UNCHANGED <<files, diskVars, memVars>>

\* the batch of line 52-58; the timestamp is the number of the call
Operation(type, src, tgt, ops) ==
  [timestamp |-> Len(log), type |-> type, source_dir |-> src,
   target_dir |-> tgt, operations |-> ops]

\* line 93: _record_operation('organize_by_type', ...)
OrganizeRecord ==
  /\ pc = "organize" /\ todo = <<>>
  /\ LET operation == Operation("organize_by_type", source_dir, target_dir, operations)
     IN /\ history' = RecordedHistory(history, operation)
        /\ last_operation' = RecordedLastOperation(last_operation, operation)
        /\ histFile' = SaveHistory(history', last_operation')
        /\ timeline' = UpdateTimeline(timeline, operation)
  /\ End("ok", operations) /\ Idle
  /\ UNCHANGED <<fsVars, nenv>>

\* _save_history or _update_timeline raises (disk full, permissions): the
\* in-memory history is already set; a failed write of the history file
\* leaves it as it was or truncated
OrganizeRecordFault ==
  /\ pc = "organize" /\ todo = <<>>
  /\ OutsideEvent
  /\ LET operation == Operation("organize_by_type", source_dir, target_dir, operations)
     IN /\ history' = RecordedHistory(history, operation)
        /\ last_operation' = RecordedLastOperation(last_operation, operation)
        /\ \/ /\ histFile' \in {histFile, [state |-> "corrupt", data |-> <<>>]}
              /\ UNCHANGED timeline
           \/ /\ histFile' = SaveHistory(history', last_operation')
              /\ UNCHANGED timeline
  /\ End("RecordError", operations) /\ Idle
  /\ UNCHANGED fsVars

\* ------------------------------------------------------------------ undo_last_operation
\* does path q lie in the subtree of directory d
Under(d, q) == Len(q) >= Len(d) /\ SubSeq(q, 1, Len(d)) = d

\* only the direct sub-directories of target_dir are looked at
Cleanup_TopOnly(F, Dr, target) ==
  Dr \ {d \in Dr : /\ Len(d) = Len(target) + 1 /\ Under(target, d)
                   /\ ~\E f \in F : Under(d, f.path)
                   /\ ~\E e \in Dr : e # d /\ Under(d, e)}

\* lines 192-200: os.walk(target_dir, topdown=False), rmdir of every directory
\* found empty; a directory is visited after its sub-directories
Cleanup(F, Dr, target) ==
  Dr \ {d \in Dr : /\ Len(d) > Len(target) /\ Under(target, d)
                   /\ ~\E f \in F : Under(d, f.path)}

\* the records are replayed in the order they were recorded
ReplayOrder_Forward(ops) == ops

\* reversed(operations)
ReplayOrder(ops) == Reverse(ops)

\* lines 175-183
UndoCall ==
  /\ pc = "idle"
  /\ Len(log) + nenv < MaxEvents
  /\ history' = LoadHistory(histFile, history)
  /\ last_operation' = LoadLastOperation(histFile, history, last_operation)
  /\ UNCHANGED <<fsVars, diskVars, nenv>>
  /\ IF history' = <<>>
     THEN /\ Begin("undo", Root, Root, "False", <<>>)
          /\ Idle
     ELSE LET last_op == history'[1]
          IN /\ Begin("undo", last_op.source_dir, last_op.target_dir, "running", <<>>)
             /\ pc' = "undo"
             /\ source_dir' = last_op.source_dir
             /\ target_dir' = last_op.target_dir
             /\ todo' = ReplayOrder(last_op.operations)
             /\ operations' = <<>>

\* one iteration of the loop of lines 186-189
UndoStep ==
  /\ pc = "undo" /\ todo # <<>>
  /\ LET op == Head(todo)
         dirs1 == Makedirs(dirs, Parent(op.source))
         moved == [source |-> op.destination,
                   destination |-> RealDst(dirs1, op.destination, op.source),
                   id |-> FileAt(files, op.destination).id]
     IN IF ~Exists(files, dirs, op.destination)
        THEN /\ todo' = Tail(todo)
             /\ UNCHANGED <<fsVars, diskVars, memVars, pc, source_dir, target_dir,
                            operations, ret, log, touched, nenv>>
        ELSE IF MakedirsRaises(files, Parent(op.source))
        THEN /\ End("False", log[Len(log)].recs) /\ Idle
             /\ UNCHANGED <<fsVars, diskVars, memVars, nenv>>
        ELSE IF MoveRaises(files, dirs1, op.destination, op.source)
        THEN /\ End("False", log[Len(log)].recs) /\ Idle
             /\ dirs' = dirs1
             /\ UNCHANGED <<files, diskVars, memVars, nenv>>
        ELSE /\ dirs' = dirs1
             /\ files' = ShutilMove(files, dirs1, op.destination, op.source)
             /\ todo' = Tail(todo)
             /\ log' = [log EXCEPT ![Len(log)].recs = Append(@, moved),
                                    ![Len(log)].ids = @ \cup {moved.id}]
             /\ UNCHANGED <<diskVars, memVars, pc, source_dir, target_dir,
                            operations, ret, touched, nenv>>

\* no try/except around the replay: the exception of shutil.move leaves
\* undo_last_operation
UndoFault_Propagates ==
  /\ pc = "undo" /\ todo # <<>>
  /\ OutsideEvent
  /\ Exists(files, dirs, Head(todo).destination)
  /\ ~MakedirsRaises(files, Parent(Head(todo).source))
  /\ dirs' = Makedirs(dirs, Parent(Head(todo).source))
  /\ End("Exception", log[Len(log)].recs) /\ Idle
  /\ UNCHANGED <<files, diskVars, memVars>>

\* shutil.move fails for a reason outside the tree: caught at line 220
UndoFault ==
  /\ pc = "undo" /\ todo # <<>>
  /\ OutsideEvent
  /\ Exists(files, dirs, Head(todo).destination)
  /\ ~MakedirsRaises(files, Parent(Head(todo).source))
  /\ dirs' = Makedirs(dirs, Parent(Head(todo).source))
  /\ End("False", log[Len(log)].recs) /\ Idle
  /\ UNCHANGED <<files, diskVars, memVars>>

\* lines 191-218: cleanup, clear the history, write the timeline
UndoFinish ==
  /\ pc = "undo" /\ todo = <<>>
  /\ dirs' = Cleanup(files, dirs, target_dir)
  /\ history' = <<>>
  /\ last_operation' = ClearedLastOperation(last_operation)
  /\ histFile' = SaveHistory(history', last_operation')
  /\ timeline' = UpdateTimeline(timeline, Operation("undo", source_dir, target_dir, <<>>))
  /\ End("True", log[Len(log)].recs) /\ Idle
  /\ UNCHANGED <<files, nenv>>

\* lines 195-200: os.listdir or os.rmdir raises OSError for some of the empty
\* directories (permissions): the error is skipped, the directories stay and
\* undo goes on to clear the history and to return True
UndoFinishCleanupFault ==
  /\ pc = "undo" /\ todo = <<>>
  /\ OutsideEvent
  /\ \E kept \in SUBSET (dirs \ Cleanup(files, dirs, target_dir)) :
       /\ kept # {}
       /\ dirs' = Cleanup(files, dirs, target_dir) \cup kept
       /\ \A d \in dirs' : Prefixes(d) \subseteq dirs'
  /\ history' = <<>>
  /\ last_operation' = ClearedLastOperation(last_operation)
  /\ histFile' = SaveHistory(history', last_operation')
  /\ timeline' = UpdateTimeline(timeline, Operation("undo", source_dir, target_dir, <<>>))
  /\ End("True", log[Len(log)].recs) /\ Idle
  /\ UNCHANGED files

\* _save_history or _update_timeline raises inside the try: caught at line 220
UndoFinishFault ==
  /\ pc = "undo" /\ todo = <<>>
  /\ OutsideEvent
  /\ dirs' = Cleanup(files, dirs, target_dir)
  /\ history' = <<>>
  /\ last_operation' = ClearedLastOperation(last_operation)
  /\ \/ histFile' \in {histFile, [state |-> "corrupt", data |-> <<>>]}
     \/ histFile' = SaveHistory(history', last_operation')
  /\ UNCHANGED timeline
  /\ End("False", log[Len(log)].recs) /\ Idle
  /\ UNCHANGED files

\* ------------------------------------------------------------------ the process and the user
\* a new process: FileOrganizer() of lines 26-28
Restart ==
  /\ pc = "idle"
  /\ history' = LoadHistory(histFile, <<>>)
  /\ last_operation' = LoadLastOperation(histFile, <<>>, None)
  /\ UNCHANGED <<fsVars, diskVars, pc, frameVars, ret, log, touched, nenv>>

UserStep ==
  /\ pc = "idle"
  /\ OutsideEvent
  /\ touched' = TRUE
  /\ UNCHANGED <<memVars, pc, frameVars, ret, log>>

\* the user deletes organization_history.json
UserDeletesHistory ==
  /\ UserStep
  /\ histFile.state # "missing"
  /\ histFile' = [state |-> "missing", data |-> <<>>]
  /\ UNCHANGED <<fsVars, timeline>>

\* organization_history.json is damaged: json.load raises
UserCorruptsHistory ==
  /\ UserStep
  /\ histFile.state = "ok"
  /\ histFile' = [state |-> "corrupt", data |-> <<>>]
  /\ UNCHANGED <<fsVars, timeline>>

\* the user puts a new file into a directory that exists
UserPaths == {Append(SDir, aJPG)}

UserAddsFile(p) ==
  /\ UserStep
  /\ ~Exists(files, dirs, p) /\ IsDir(dirs, Parent(p))
  /\ files' = files \cup {[path |-> p, id |-> 10 + nenv + 1]}
  /\ UNCHANGED <<dirs, diskVars>>

\* the user makes an empty directory inside a directory that exists
UserDirs == {Append(SImages, D("old"))}

UserMakesDir(d) ==
  /\ UserStep
  /\ ~Exists(files, dirs, d) /\ IsDir(dirs, Parent(d))
  /\ dirs' = dirs \cup {d}
  /\ UNCHANGED <<files, diskVars>>

\* the user deletes a file that the stored batch moved
StoredDestinations ==
  IF histFile.state = "ok" /\ histFile.data # <<>>
  THEN {histFile.data[1].operations[i].destination :
          i \in 1..Len(histFile.data[1].operations)}
  ELSE {}

UserRemovesFile(p) ==
  /\ UserStep
  /\ IsFile(files, p)
  /\ files' = {f \in files : f.path # p}
  /\ UNCHANGED <<dirs, diskVars>>

\* ------------------------------------------------------------------ specification
Next ==
  \/ \E c \in CallChoices : OrganizeCall(c[1], c[2])
  \/ OrganizeStep
  \/ OrganizeFault
  \/ OrganizeRecord
  \/ OrganizeRecordFault
  \/ UndoCall
  \/ UndoStep
  \/ UndoFault
  \/ UndoFinish
  \/ UndoFinishCleanupFault
  \/ UndoFinishFault
  \/ Restart
  \/ UserDeletesHistory
  \/ UserCorruptsHistory
  \/ \E p \in UserPaths : UserAddsFile(p)
  \/ \E d \in UserDirs : UserMakesDir(d)
  \/ \E p \in StoredDestinations : UserRemovesFile(p)

Spec == Init /\ [][Next]_vars

\* ------------------------------------------------------------------ sanity
TypeOK ==
  /\ WellFormed(files, dirs)
  /\ \A f, g \in files : f.path = g.path => f = g
  /\ pc \in {"idle", "organize", "undo"}
  /\ histFile.state \in {"ok", "missing", "corrupt"}
  /\ Len(log) + nenv <= MaxEvents
  /\ pc # "idle" => Len(log) > 0 /\ log[Len(log)].ret = "running"
  /\ pc = "idle" => \A i \in 1..Len(log) : log[i].ret # "running"

\* a recorded destination is never a directory when undo looks at it
UndoDestinationsAreFiles ==
  pc = "undo" => \A i \in 1..Len(todo) : ~IsDir(dirs, todo[i].destination)

\* ------------------------------------------------------------------ reading the call log
N == Len(log)
DirectFiles(F, d) == {f \in F : Parent(f.path) = d}
IdsOf(F) == {f.id : f \in F}

\* the files an organize call moved, by identity
OrganizedIds(c) == c.ids
\* the files an undo call moved, by identity
RestoredIds(c) == c.ids

OrganizeOk(i) == log[i].op = "organize" /\ log[i].ret = "ok"
UndoEnded(i) == log[i].op = "undo" /\ log[i].ret \in {"True", "False"}

\* no system call failed during the last call and nothing happened after it
NoFault == N >= 1 /\ nenv = log[N].nenv0 /\ ~touched

\* the batch the last call (an undo) loaded from the history file
LoadedBatch == log[N].hist0.data[1]
UndoLoaded ==
  N >= 1 /\ log[N].op = "undo" /\ log[N].hist0.state = "ok" /\ log[N].hist0.data # <<>>

\* a category folder of target that holds nothing
EmptyCategoryFolders(F, Dr, target) ==
  {d \in {Append(target, D(c)) : c \in Categories} :
     /\ d \in Dr
     /\ ~\E f \in F : Under(d, f.path)
     /\ ~\E e \in Dr : e # d /\ Under(d, e)}

\* ------------------------------------------------------------------ C1
\* C1: a successful organize followed immediately by an undo that returns
\* True, with no system call failing, leaves every file that was directly in
\* source_dir at its original path and no empty category folder under
\* target_dir.
C1_RoundTrip ==
  (pc = "idle" /\ N >= 2 /\ OrganizeOk(N - 1)
     /\ log[N].op = "undo" /\ log[N].clean /\ log[N].ret = "True" /\ NoFault)
  => /\ DirectFiles(log[N - 1].files0, log[N - 1].source_dir) \subseteq files
     /\ EmptyCategoryFolders(files, dirs, log[N - 1].target_dir) = {}

\* the same, for trees where no file of source_dir is called like a category
C1_RoundTripPlainNames ==
  (pc = "idle" /\ N >= 2 /\ OrganizeOk(N - 1)
     /\ log[N].op = "undo" /\ log[N].clean /\ log[N].ret = "True" /\ NoFault
     /\ \A f \in DirectFiles(log[N - 1].files0, log[N - 1].source_dir) :
          Last(f.path).ext # "" \/ Last(f.path).base \notin Categories)
  => /\ DirectFiles(log[N - 1].files0, log[N - 1].source_dir) \subseteq files
     /\ EmptyCategoryFolders(files, dirs, log[N - 1].target_dir) = {}

\* ------------------------------------------------------------------ C2
\* C2: when an undo follows two successful organize calls, every move it
\* makes takes a file from the destination to the source of a record of the
\* second call, and it moves no file that only the first call moved.
C2_UndoOnlySecondBatch ==
  (N >= 3 /\ OrganizeOk(N - 2) /\ OrganizeOk(N - 1) /\ log[N].op = "undo")
  => /\ \A k \in 1..Len(log[N].recs) :
          \E j \in 1..Len(log[N - 1].recs) :
            /\ log[N - 1].recs[j].destination = log[N].recs[k].source
            /\ log[N - 1].recs[j].source = log[N].recs[k].destination
     /\ RestoredIds(log[N]) \cap
          (OrganizedIds(log[N - 2]) \ OrganizedIds(log[N - 1])) = {}

\* C2: an undo called right after an undo that returned True returns False.
C2_FurtherUndoFalse ==
  (N >= 2 /\ log[N - 1].op = "undo" /\ log[N - 1].ret = "True"
     /\ log[N].op = "undo" /\ log[N].clean)
  => log[N].ret = "False"

\* C2: single-slot history: the undo after two organize calls replays only
\* records of the second call, and a further undo returns False.
C2_SingleSlot == C2_UndoOnlySecondBatch /\ C2_FurtherUndoFalse

\* two organize calls that each moved a file, an undo that moved a file back
\* while the file of the first call is not back at its first path, and a
\* further undo that returned False
C2_Witness ==
  /\ pc = "idle" /\ N = 4
  /\ OrganizeOk(1) /\ OrganizeOk(2)
  /\ log[3].op = "undo" /\ log[3].ret = "True" /\ RestoredIds(log[3]) # {}
  /\ log[4].op = "undo" /\ log[4].ret = "False"
  /\ OrganizedIds(log[1]) \ OrganizedIds(log[2]) # {}
  /\ \A f \in files :
       f.id \in OrganizedIds(log[1]) \ OrganizedIds(log[2]) => f.path # InitPathSeq[f.id]

\* ------------------------------------------------------------------ C3
\* C3: when organize raises inside its loop, the history file is what it was
\* before the call, and an undo called next moves back no file that an
\* earlier organize recorded.
C3_FailedOrganizeIsolation ==
  (N >= 2 /\ log[N - 1].op = "organize" /\ log[N - 1].ret = "LoopError"
     /\ log[N].op = "undo" /\ log[N].clean)
  => /\ log[N].hist0 = log[N - 1].hist0
     /\ \A j \in 1..(N - 2) :
          log[j].op = "organize" => RestoredIds(log[N]) \cap OrganizedIds(log[j]) = {}

\* ------------------------------------------------------------------ C4
\* a step of the loop of organize_by_type that moved a file
C4_Moved == Len(operations') = Len(operations) + 1 /\ pc = "organize"

\* C4: every move of organize goes to a path that did not exist just before
\* it, leaves every other file where it was and loses no file; when the plain
\* destination category_dir/name is taken, the file gets that name with one
\* more "_k" (k >= 1) and the file that held the plain name still exists.
C4_CollisionSafety ==
  [][ C4_Moved =>
        LET rec == operations'[Len(operations')]
            name == Last(rec.source)
            plain == Append(Parent(rec.destination), name)
            moved == FileAt(files, rec.source)
        IN /\ ~Exists(files, dirs, rec.destination)
           /\ \A f \in files : f # moved => f \in files'
           /\ [path |-> rec.destination, id |-> moved.id] \in files'
           /\ Cardinality(files') = Cardinality(files)
           /\ IF Exists(files, dirs, plain)
              THEN /\ \E k \in 1..(Cardinality(files) + Cardinality(dirs) + 1) :
                        rec.destination = WithCounter(plain, k)
                   /\ IsFile(files, plain) => FileAt(files, plain).id \in IdsOf(files')
              ELSE rec.destination = plain
    ]_vars

\* organize moved a file whose plain destination was held by another file:
\* both are there, the moved one under the name with "_1"
C4_Witness ==
  /\ pc = "organize"
  /\ \E i \in 1..Len(operations) :
       LET rec == operations[i]
           plain == Append(Parent(rec.destination), Last(rec.source))
       IN /\ rec.destination = WithCounter(plain, 1)
          /\ plain # rec.source
          /\ IsFile(files, plain) /\ IsFile(files, rec.destination)
          /\ FileAt(files, plain) \in log[N].files0

\* ------------------------------------------------------------------ C5
\* the organize call that ended last returned, and nothing happened since
JustOrganized == pc = "idle" /\ N >= 1 /\ OrganizeOk(N) /\ ~touched

\* c is the first category of the table that lists the lower-cased extension
\* of name, or 'others' when no category lists it
TableCategory(name, c) ==
  LET e == Lower(name.ext)
  IN \/ \E i \in 1..Len(file_types) :
          /\ file_types[i].cat = c /\ e \in file_types[i].exts
          /\ \A j \in 1..(i - 1) : e \notin file_types[j].exts
     \/ c = "others" /\ \A i \in 1..Len(file_types) : e \notin file_types[i].exts

\* where the file with identity id is now
PathsOf(id) == {g.path : g \in {h \in files : h.id = id}}

\* C5 as claimed: after a successful organize every file that was directly in
\* source_dir is at exactly one path, in target_dir/<its table category>, and
\* none is directly in source_dir.
C5_CategorizedNoneLeft ==
  JustOrganized =>
    \A f \in DirectFiles(log[N].files0, log[N].source_dir) :
      /\ Cardinality(PathsOf(f.id)) = 1
      /\ \A q \in PathsOf(f.id) :
           /\ \E c \in Categories :
                TableCategory(Last(f.path), c) /\ Parent(q) = Append(log[N].target_dir, D(c))
           /\ Parent(q) # log[N].source_dir

\* C5 amended: ... and none is directly in source_dir, except that a file whose
\* category folder target_dir/<category> is source_dir itself stays in
\* source_dir, under its name with "_k" added.
C5_Categorized ==
  JustOrganized =>
    \A f \in DirectFiles(log[N].files0, log[N].source_dir) :
      /\ Cardinality(PathsOf(f.id)) = 1
      /\ \A q \in PathsOf(f.id) :
           /\ \E c \in Categories :
                TableCategory(Last(f.path), c) /\ Parent(q) = Append(log[N].target_dir, D(c))
           /\ Parent(q) = log[N].source_dir =>
                \E k \in 1..(Cardinality(files) + Cardinality(dirs) + 1) :
                  q = WithCounter(f.path, k)

\* organize moved a.JPG (upper-case extension) and a file without extension
C5_Witness ==
  /\ JustOrganized
  /\ \E f, g \in DirectFiles(log[N].files0, log[N].source_dir) :
       /\ Last(f.path).ext = ".JPG" /\ Last(g.path).ext = ""
       /\ Append(log[N].target_dir, D("images")) # log[N].source_dir
       /\ IsFile(files, Append(Append(log[N].target_dir, D("images")), Last(f.path)))
       /\ IsFile(files, Append(Append(log[N].target_dir, D("others")), Last(g.path)))

\* ------------------------------------------------------------------ C6
\* C6: the history file never holds more than one batch; right after a
\* successful organize it holds exactly the batch of that call (its source_dir,
\* target_dir and its move records in order); right after an undo that
\* returned True it holds the empty list.
C6_StoredBatch ==
  /\ histFile.state = "ok" => Len(histFile.data) <= 1
  /\ histFile.state # "ok" => histFile.data = <<>>
  /\ JustOrganized =>
       /\ histFile.state = "ok" /\ Len(histFile.data) = 1
       /\ histFile.data[1].operations = log[N].recs
       /\ histFile.data[1].timestamp = N
       /\ histFile.data[1].source_dir = log[N].source_dir
       /\ histFile.data[1].target_dir = log[N].target_dir
  /\ (pc = "idle" /\ N >= 1 /\ log[N].op = "undo" /\ log[N].ret = "True" /\ ~touched)
       => histFile = [state |-> "ok", data |-> <<>>]

\* an undo that moved files back has returned True
C6_Witness ==
  /\ pc = "idle" /\ N >= 2 /\ ~touched
  /\ log[N].op = "undo" /\ log[N].ret = "True" /\ Len(log[N].recs) > 0
  /\ log[N].hist0.state = "ok" /\ Len(log[N].hist0.data) = 1

\* ------------------------------------------------------------------ C7
\* C7: an undo called while the history file holds the empty list returns
\* False and leaves files, directories, the history file and the timeline as
\* they were; so does the same call made again.
C7_UndoNoHistory ==
  (pc # "organize" /\ N >= 1 /\ log[N].op = "undo"
     /\ log[N].hist0 = [state |-> "ok", data |-> <<>>] /\ ~touched)
  => /\ pc = "idle" /\ ret = "False" /\ log[N].ret = "False"
     /\ files = log[N].files0 /\ dirs = log[N].dirs0
     /\ histFile = log[N].hist0 /\ timeline = log[N].tl0

\* undo twice with an empty history file, after an organize whose history
\* write failed: the organizer's cache holds a batch that the file does not
C7_Witness ==
  /\ pc = "idle" /\ N >= 3 /\ ~touched
  /\ log[N - 2].op = "organize" /\ log[N - 2].ret = "RecordError"
  /\ OrganizedIds(log[N - 2]) # {}
  /\ log[N - 1].op = "undo" /\ log[N - 1].hist0 = [state |-> "ok", data |-> <<>>]
  /\ log[N].op = "undo" /\ log[N].clean /\ log[N].hist0 = [state |-> "ok", data |-> <<>>]
  /\ log[N].ret = "False"

\* ------------------------------------------------------------------ C8
\* C8: an undo called while the history file is missing or unparseable
\* returns False and moves nothing, whatever the organizer holds in memory.
C8_LoadMissingOrCorrupt ==
  (N >= 1 /\ log[N].op = "undo" /\ log[N].hist0.state \in {"missing", "corrupt"})
  => /\ log[N].ret = "False"
     /\ log[N].recs = <<>>
     /\ files = log[N].files0 \/ touched

\* the part of C8 that the code keeps: an unparseable file gives an empty history
C8_LoadCorrupt ==
  (N >= 1 /\ log[N].op = "undo" /\ log[N].hist0.state = "corrupt")
  => /\ log[N].ret = "False"
     /\ log[N].recs = <<>>
     /\ files = log[N].files0 \/ touched

\* ------------------------------------------------------------------ C9
\* C9: while organize is in its loop, and after it left the loop by an
\* exception, the history file and the timeline are what they were before the
\* call; after the exception the k files moved so far are at their recorded
\* destinations, the other files of source_dir are where they were, and every
\* file of the tree is still there, at one path.
C9_AbortedBatch ==
  /\ (N >= 1 /\ log[N].op = "organize" /\ pc = "organize")
       => histFile = log[N].hist0 /\ timeline = log[N].tl0
  /\ (pc = "idle" /\ N >= 1 /\ log[N].op = "organize" /\ log[N].ret = "LoopError" /\ ~touched)
       => LET c == log[N]
          IN /\ histFile = c.hist0 /\ timeline = c.tl0
             /\ \A i \in 1..Len(c.recs) :
                  /\ IsFile(c.files0, c.recs[i].source)
                  /\ [path |-> c.recs[i].destination,
                      id |-> FileAt(c.files0, c.recs[i].source).id] \in files
             /\ \A f \in DirectFiles(c.files0, c.source_dir) :
                  (\A i \in 1..Len(c.recs) : c.recs[i].source # f.path) => f \in files
             /\ \A f \in c.files0 : Parent(f.path) # c.source_dir => f \in files
             /\ Cardinality(files) = Cardinality(c.files0)
             /\ IdsOf(files) = IdsOf(c.files0)

\* organize stopped after one move, with one file of source_dir not yet moved
C9_Witness ==
  /\ pc = "idle" /\ N >= 1 /\ ~touched
  /\ log[N].op = "organize" /\ log[N].ret = "LoopError"
  /\ Len(log[N].recs) = 1
  /\ Cardinality(DirectFiles(log[N].files0, log[N].source_dir)) = 2
  /\ log[N].hist0.data # <<>>

\* ------------------------------------------------------------------ C10
\* C10: organize on a source_dir that does not exist raises FileNotFoundError
\* and leaves files, directories (target_dir is not created), the history
\* file and the timeline as they were.
C10_NotFoundFailsFast ==
  (N >= 1 /\ log[N].op = "organize"
     /\ ~Exists(log[N].files0, log[N].dirs0, log[N].source_dir) /\ ~touched)
  => /\ pc = "idle" /\ log[N].ret = "FileNotFoundError"
     /\ files = log[N].files0 /\ dirs = log[N].dirs0
     /\ histFile = log[N].hist0 /\ timeline = log[N].tl0

\* organize was called with a source_dir and a target_dir that both do not exist
C10_Witness ==
  /\ pc = "idle" /\ N >= 1 /\ ~touched
  /\ log[N].op = "organize" /\ log[N].ret = "FileNotFoundError"
  /\ log[N].target_dir # log[N].source_dir
  /\ ~Exists(files, dirs, log[N].target_dir)

\* ------------------------------------------------------------------ C11
\* the records of the loaded batch whose destination was gone when undo began
C11_Gone ==
  {i \in 1..Len(LoadedBatch.operations) :
     ~Exists(log[N].files0, log[N].dirs0, LoadedBatch.operations[i].destination)}

\* C11: an undo that finds some recorded destinations gone, and in which no
\* system call fails, returns True and clears the history file; no file
\* appears at the source path of a record whose destination was gone; the file
\* at every other recorded destination is at the record's source path
\* afterwards, and no other file was moved.
C11_BestEffortUndo ==
  (pc = "idle" /\ UndoLoaded /\ NoFault /\ C11_Gone # {})
  => LET ops == LoadedBatch.operations
         there == (1..Len(ops)) \ C11_Gone
     IN /\ log[N].ret = "True"
        /\ histFile = [state |-> "ok", data |-> <<>>]
        /\ \A i \in C11_Gone :
             \A f \in files : f.path = ops[i].source => f \in log[N].files0
        /\ \A i \in there :
             [path |-> ops[i].source,
              id |-> FileAt(log[N].files0, ops[i].destination).id] \in files
        /\ RestoredIds(log[N]) =
             {FileAt(log[N].files0, ops[i].destination).id : i \in there}

\* the same, when no recorded source path is a directory when undo begins
C11_BestEffortUndoNoDirAtSource ==
  (pc = "idle" /\ UndoLoaded /\ NoFault /\ C11_Gone # {}
     /\ \A i \in 1..Len(LoadedBatch.operations) :
          ~IsDir(log[N].dirs0, LoadedBatch.operations[i].source))
  => LET ops == LoadedBatch.operations
         there == (1..Len(ops)) \ C11_Gone
     IN /\ log[N].ret = "True"
        /\ histFile = [state |-> "ok", data |-> <<>>]
        /\ \A i \in C11_Gone :
             \A f \in files : f.path = ops[i].source => f \in log[N].files0
        /\ \A i \in there :
             [path |-> ops[i].source,
              id |-> FileAt(log[N].files0, ops[i].destination).id] \in files
        /\ RestoredIds(log[N]) =
             {FileAt(log[N].files0, ops[i].destination).id : i \in there}

\* ------------------------------------------------------------------ C12
\* is t what is left of s after some of its first elements
IsSuffix(t, s) == Len(t) <= Len(s) /\ t = SubSeq(s, Len(s) - Len(t) + 1, Len(s))

\* C12: while undo replays, the records still to handle are the first
\* records of the batch, the last of them next: record i is handled only
\* after every record j > i.
C12_Order ==
  pc = "undo" =>
    LET ops == history[1].operations
    IN /\ IsSuffix(todo, Reverse(ops))
       /\ todo = Reverse(SubSeq(ops, 1, Len(todo)))

\* a later record's destination is an earlier record's source path
C12_Chained(ops) ==
  \E i, j \in 1..Len(ops) : i < j /\ ops[j].destination = ops[i].source

\* C12: when an undo in which nothing fails follows directly the organize that
\* recorded the batch, and the batch has a later record whose destination is
\* an earlier record's source path, every file of the batch ends at the path
\* it had before the organize.
C12_ChainRestored ==
  (pc = "idle" /\ N >= 2 /\ OrganizeOk(N - 1) /\ UndoLoaded /\ log[N].clean
     /\ NoFault /\ C12_Chained(log[N - 1].recs))
  => /\ log[N].ret = "True"
     /\ \A i \in 1..Len(log[N - 1].recs) :
          FileAt(log[N - 1].files0, log[N - 1].recs[i].source) \in files

\* C12: reverse replay order
C12_ReverseReplay == C12_Order /\ C12_ChainRestored

\* organize of a category folder of target_dir renamed a_1.JPG first and then
\* a.JPG to a_1.JPG; the undo has put both back
C12_Witness ==
  /\ pc = "idle" /\ N >= 2 /\ OrganizeOk(N - 1) /\ UndoLoaded /\ log[N].clean
  /\ NoFault /\ C12_Chained(log[N - 1].recs)
  /\ Len(log[N].recs) = 2
  /\ log[N].recs[1].source = log[N - 1].recs[2].destination
  /\ log[N].recs[2].destination = log[N - 1].recs[2].destination

\* ------------------------------------------------------------------ C13
\* directories strictly below d
Below(Dr, d) == {e \in Dr : e # d /\ Under(d, e)}

C14_UndoWithError ==
  pc = "idle" /\ N >= 1 /\ log[N].op = "undo" /\ ~touched /\ nenv > log[N].nenv0

\* every file the undo moved is where the move put it
C14_MovedStay ==
  \A k \in 1..Len(log[N].recs) :
    [path |-> log[N].recs[k].destination, id |-> log[N].recs[k].id] \in files

\* C14 as claimed: undo always returns True or False; when a system call
\* failed in it (replay, cleanup, clearing the log, writing the timeline) it
\* returned False, and the files it had moved back are where it put them.
C14_AnyErrorFalse ==
  /\ (pc = "idle" /\ N >= 1 /\ log[N].op = "undo") => log[N].ret \in {"True", "False"}
  /\ C14_UndoWithError => log[N].ret = "False" /\ C14_MovedStay

\* C14 amended: ... when a system call failed in it, the files it had moved
\* back are where it put them, and it returned False, unless the call that
\* failed was the removal of an empty directory in the cleanup: that error is
\* skipped, the directory stays, and undo clears the history file, writes the
\* timeline entry and returns True.
C14_UndoFailure ==
  /\ (pc = "idle" /\ N >= 1 /\ log[N].op = "undo") => log[N].ret \in {"True", "False"}
  /\ C14_UndoWithError =>
       /\ C14_MovedStay
       /\ \/ log[N].ret = "False"
          \/ /\ log[N].ret = "True"
             /\ \E d \in Below(dirs, log[N].target_dir) : ~\E f \in files : Under(d, f.path)
             /\ histFile = [state |-> "ok", data |-> <<>>]
             /\ Len(timeline) = Len(log[N].tl0) + 1

\* the replay moved one file back and failed at the next record
C14_Witness ==
  /\ C14_UndoWithError /\ log[N].ret = "False"
  /\ Len(log[N].recs) = 1 /\ C14_MovedStay
  /\ histFile = log[N].hist0 /\ UndoLoaded /\ Len(LoadedBatch.operations) = 2

\* ------------------------------------------------------------------ C15
\* the last call is an organize of source_dir into itself, made right after
\* a successful organize of the same folder into itself
C15_SecondRun ==
  /\ N >= 2 /\ OrganizeOk(N - 1) /\ log[N].op = "organize" /\ log[N].clean
  /\ log[N - 1].target_dir = log[N - 1].source_dir
  /\ log[N].source_dir = log[N - 1].source_dir
  /\ log[N].target_dir = log[N].source_dir

\* C15: the second of two organize runs of a folder into itself finds no file
\* to move: it moves nothing and raises nothing in its loop, and files and
\* directories after it are what they were after the first run.  In every
\* organize, the files moved were directly in source_dir and every other file
\* stays where it is.
C15_ReorganizeNoOp ==
  /\ (C15_SecondRun /\ ~touched) =>
       /\ todo = <<>>
       /\ log[N].ids = {} /\ log[N].recs = <<>>
       /\ files = log[N].files0 /\ dirs = log[N].dirs0
       /\ log[N].ret \in {"running", "ok", "RecordError"}
       /\ (pc = "idle" /\ NoFault) => log[N].ret = "ok"
  /\ (N >= 1 /\ log[N].op = "organize" /\ ~touched) =>
       /\ OrganizedIds(log[N]) \subseteq
            IdsOf(DirectFiles(log[N].files0, log[N].source_dir))
       /\ \A f \in log[N].files0 : Parent(f.path) # log[N].source_dir => f \in files

\* the first run moved a file into a category folder that held a file
\* already, the second run has returned
C15_Witness ==
  /\ pc = "idle" /\ C15_SecondRun /\ NoFault /\ log[N].ret = "ok"
  /\ OrganizedIds(log[N - 1]) # {}
  /\ Cardinality(files) >= 2
  /\ \A f \in files : Len(f.path) = Len(log[N].source_dir) + 2

\* ------------------------------------------------------------------ C16
\* the paths _get_unique_path is asked about: the name of every file of the
\* tree, in every directory that holds a file
C16_Paths == {Append(Parent(f.path), Last(g.path)) : f, g \in files}

\* C16: in every tree, for every such path p: _get_unique_path(p) is p when p does
\* not exist; otherwise it is p with "_k" before the extension, for the
\* smallest k >= 1 for which that path does not exist; the path returned does
\* not exist.  (The function only asks os.path.exists: it changes nothing.)
C16_UniquePath ==
  \A p \in C16_Paths :
    LET r == GetUniquePath(files, dirs, p)
    IN /\ ~Exists(files, dirs, r)
       /\ ~Exists(files, dirs, p) => r = p
       /\ Exists(files, dirs, p) =>
            \E k \in 1..(Cardinality(files) + Cardinality(dirs) + 1) :
              /\ r = WithCounter(p, k)
              /\ \A j \in 1..(k - 1) : Exists(files, dirs, WithCounter(p, j))

\* organize gave a file the counter 2: the plain name and the name with "_1"
\* were both taken
C16_Witness ==
  /\ pc = "organize" /\ operations # <<>>
  /\ LET rec == operations[Len(operations)]
         plain == Append(Parent(rec.destination), Last(rec.source))
     IN /\ rec.destination = WithCounter(plain, 2)
        /\ IsFile(files, plain) /\ IsFile(files, WithCounter(plain, 1))
        /\ IsFile(files, rec.destination)
        /\ GetUniquePath(files, dirs, plain) = WithCounter(plain, 3)

\* ------------------------------------------------------------------ C17
\* the calls that returned normally: organize returned, undo returned True
C17_Successful == {i \in 1..N : log[i].ret \in {"ok", "True"}}

\* C17: the timeline has one entry per successful organize and successful
\* undo and none for any other call (undo without history, organize that
\* raised); a call leaves the entries that were there as they were and adds
\* at most one, at the end; when it has added its entry, the history file
\* already holds what the call wrote: its batch for an organize, the empty
\* list for an undo.
C17_TimelineAppendOnly ==
  /\ Len(timeline) = Cardinality(C17_Successful)
  /\ N >= 1 =>
       /\ SubSeq(timeline, 1, Len(log[N].tl0)) = log[N].tl0
       /\ Len(timeline) <= Len(log[N].tl0) + 1
       /\ Len(timeline) = Len(log[N].tl0) + 1 <=> log[N].ret \in {"ok", "True"}
  /\ (N >= 1 /\ log[N].ret = "ok") =>
       /\ Last(timeline) = [type |-> "organize_by_type", count |-> Len(log[N].recs),
                             location |-> log[N].target_dir]
       /\ ~touched => /\ histFile.state = "ok" /\ Len(histFile.data) = 1
                       /\ histFile.data[1].timestamp = N
  /\ (N >= 1 /\ log[N].ret = "True") =>
       /\ Last(timeline) = [type |-> "undo", count |-> 0, location |-> log[N].target_dir]
       /\ ~touched => histFile = [state |-> "ok", data |-> <<>>]

\* an organize that moved files, an undo that returned True and an undo that
\* found no history: two entries
C17_Witness ==
  /\ pc = "idle" /\ N = 3 /\ Len(timeline) = 2
  /\ OrganizeOk(1) /\ timeline[1].type = "organize_by_type" /\ timeline[1].count > 0
  /\ log[2].op = "undo" /\ log[2].ret = "True" /\ timeline[2].type = "undo"
  /\ log[3].op = "undo" /\ log[3].ret = "False"

\* ------------------------------------------------------------------ C18
\* the last two calls are undos: the first loaded a batch from the history
\* file and returned False with records left to replay (a move failed); the
\* second was made next, nothing failed in it, and it has returned
C18_Resumed ==
  /\ pc = "idle" /\ N >= 2
  /\ log[N - 1].op = "undo" /\ log[N - 1].ret = "False" /\ log[N - 1].left > 0
  /\ log[N - 1].hist0.state = "ok" /\ log[N - 1].hist0.data # <<>>
  /\ log[N].op = "undo" /\ log[N].clean /\ NoFault

\* C18: the failed undo left the history file as it was; the next undo
\* returns True and clears the history file, moves no file that the failed
\* undo had moved back, and after it the file of every record whose
\* destination existed when the failed undo began is at the record's source
\* path.
C18_ResumableUndo ==
  C18_Resumed =>
    LET ops == log[N - 1].hist0.data[1].operations
    IN /\ log[N].hist0 = log[N - 1].hist0
       /\ log[N].ret = "True"
       /\ histFile = [state |-> "ok", data |-> <<>>]
       /\ RestoredIds(log[N]) \cap RestoredIds(log[N - 1]) = {}
       /\ \A i \in 1..Len(ops) :
            IsFile(log[N - 1].files0, ops[i].destination) =>
              [path |-> ops[i].source,
               id |-> FileAt(log[N - 1].files0, ops[i].destination).id] \in files

\* the same, when no recorded source path is a directory
C18_ResumableUndoNoDirAtSource ==
  (C18_Resumed /\ \A i \in 1..Len(log[N - 1].hist0.data[1].operations) :
                    ~IsDir(log[N - 1].dirs0, log[N - 1].hist0.data[1].operations[i].source))
  => LET ops == log[N - 1].hist0.data[1].operations
     IN /\ log[N].hist0 = log[N - 1].hist0
        /\ log[N].ret = "True"
        /\ histFile = [state |-> "ok", data |-> <<>>]
        /\ RestoredIds(log[N]) \cap RestoredIds(log[N - 1]) = {}
        /\ \A i \in 1..Len(ops) :
             IsFile(log[N - 1].files0, ops[i].destination) =>
               [path |-> ops[i].source,
                id |-> FileAt(log[N - 1].files0, ops[i].destination).id] \in files

\* ------------------------------------------------------------------ C19
\* C19: a call of organize or undo loses no file: while it runs and after it
\* returned, every file that was in the tree when the call began is in the
\* tree, at one path (files the user puts into the tree between calls are
\* files of the tree when the next call begins).
C19_NoFileLost ==
  (N >= 1 /\ ~touched) =>
    /\ IdsOf(log[N].files0) \subseteq IdsOf(files)
    /\ Cardinality(files) = Cardinality(log[N].files0)

\* the same for organize alone
C19_NoFileLostByOrganize ==
  (N >= 1 /\ ~touched /\ log[N].op = "organize") =>
    /\ IdsOf(log[N].files0) \subseteq IdsOf(files)
    /\ Cardinality(files) = Cardinality(log[N].files0)

\* ------------------------------------------------------------------ C20
\* C20: right after an organize that returned without moving a file, the
\* history file holds the batch of that call, with no move record; an undo
\* called next, in which nothing fails, loads that batch, returns True, moves
\* no file and leaves the history file with the empty list.
C20_EmptyBatchIsHistory ==
  /\ (JustOrganized /\ log[N].recs = <<>>) =>
       /\ histFile.state = "ok" /\ Len(histFile.data) = 1
       /\ histFile.data[1].timestamp = N /\ histFile.data[1].operations = <<>>
  /\ (pc = "idle" /\ N >= 2 /\ OrganizeOk(N - 1) /\ log[N - 1].recs = <<>>
        /\ log[N].op = "undo" /\ log[N].clean /\ NoFault) =>
       /\ log[N].hist0.state = "ok" /\ Len(log[N].hist0.data) = 1
       /\ log[N].hist0.data[1].timestamp = N - 1
       /\ log[N].ret = "True"
       /\ log[N].recs = <<>> /\ RestoredIds(log[N]) = {}
       /\ files = log[N].files0
       /\ histFile = [state |-> "ok", data |-> <<>>]

\* an organize moved a file, a second organize found nothing to move, the
\* undo returned True and the file is where the first organize put it
C20_Witness ==
  /\ pc = "idle" /\ N = 3 /\ NoFault
  /\ OrganizeOk(1) /\ OrganizedIds(log[1]) # {}
  /\ OrganizeOk(2) /\ log[2].recs = <<>>
  /\ log[3].op = "undo" /\ log[3].clean /\ log[3].ret = "True"
  /\ \A f \in files : f.id \in OrganizedIds(log[1]) => f.path # InitPathSeq[f.id]
  /\ IdsOf(files) \cap OrganizedIds(log[1]) # {}

====
